---- MODULE Spec2Model ----
(***************************************************************************)
(* Model of the query-sharding middleware of                               *)
(* pkg/querier/queryrange/querysharding.go: one querySharding instance     *)
(* serving concurrent requests through querySharding.Do (Spec, FairSpec),  *)
(* and of the series merge iterator and series set exercised by the block  *)
(* querier tests (MergeSpec, SetSpec).                                     *)
(***************************************************************************)
EXTENDS Integers, Sequences, FiniteSets, TLC

(***************************************************************************)
(* Bounds of the model.                                                    *)
(***************************************************************************)
\* Requests admitted over the lifetime of the middleware instance.
MaxRequests == 2

\* Goroutines that may be inside Do at the same time.
Procs == {"g1", "g2"}

(***************************************************************************)
(* Configuration: s.limit.QueryShardingTotalShards per tenant.             *)
(***************************************************************************)
Tenants == {"ta", "tb", "tc"}

QueryShardingTotalShards == [t \in Tenants |->
    CASE t = "ta" -> 0
      [] t = "tb" -> 2
      [] OTHER    -> 3]

\* The values of the request option TotalShards (0: no override).
Overrides == {0, 1, 2}

\* The tenant IDs a request context may carry; {} is a context without one.
Contexts == {{}, {"ta"}, {"tb", "tc"}}

(***************************************************************************)
(* Values.                                                                 *)
(***************************************************************************)
\* A query: its text, how the parser and the mapper answer on it, and the
\* total of the shard descriptors embedded in it (0 in an original query).
Queries == {
    [text |-> "sum(up)", parses |-> TRUE,  maps |-> TRUE,  legs |-> 1, shards |-> 0],
    [text |-> "up",      parses |-> TRUE,  maps |-> TRUE,  legs |-> 0, shards |-> 0],
    [text |-> "sum(",    parses |-> FALSE, maps |-> FALSE, legs |-> 0, shards |-> 0],
    [text |-> "sum(x)",  parses |-> TRUE,  maps |-> FALSE, legs |-> 1, shards |-> 0] }

EmptyQuery == [text |-> "", parses |-> FALSE, maps |-> FALSE, legs |-> 0, shards |-> 0]

NilErr == [kind |-> "nil", type |-> "", cause |-> ""]
RawErr(cause) == [kind |-> "raw", type |-> "", cause |-> cause]

\* apierror.New(typ, err.Error())
ApiError(typ, err) == [kind |-> "api", type |-> typ, cause |-> err.cause]

NilResp == [status |-> "nil", query |-> EmptyQuery, headers |-> "", by |-> ""]
NilStats == -1
NilRet == [resp |-> NilResp, err |-> NilErr]

\* The request options and the context of one request.
Requests == [ctx : Contexts, TotalShards : Overrides,
             ShardingDisabled : BOOLEAN, Query : Queries]

NoRequest == [ctx |-> {}, TotalShards |-> 0, ShardingDisabled |-> FALSE,
              Query |-> EmptyQuery]

(***************************************************************************)
(* Collaborators.                                                          *)
(***************************************************************************)
\* tenant.TenantIDs(ctx): the tenant IDs of the context, an error without any.
TenantIDsResolved(ctx) == NilErr
TenantIDsErr(ctx) == IF ctx = {} THEN RawErr("no org id") ELSE NilErr

Min(S) == CHOOSE x \in S : \A y \in S : x <= y

\* validation.SmallestPositiveIntPerTenant(tenantIDs, f)
SmallestPositiveIntPerTenant(tenantIDs, f) ==
    LET pos == {f[t] : t \in tenantIDs} \cap {n \in Int : n > 0}
    IN IF pos = {} THEN 0 ELSE Min(pos)

\* astmapper.NewSharding(shards, logger)
NewShardingErr(shards) == IF shards < 2 THEN RawErr("shards") ELSE NilErr

\* parser.ParseExpr(query)
ParseExprErr(query) == IF query.parses THEN NilErr ELSE RawErr("parse")

\* mapper.Map(expr, stats): the rewritten expression, the number of sharded
\* queries embedded in it, and an error.
Map(query, shards) ==
    IF ~query.maps THEN [query |-> EmptyQuery, sharded |-> 0, err |-> RawErr("map")]
    ELSE IF query.legs = 0 THEN [query |-> query, sharded |-> 0, err |-> NilErr]
    ELSE [query |-> [query EXCEPT !.shards = shards],
          sharded |-> query.legs * shards, err |-> NilErr]

\* What s.next.Do(ctx, r) may return for the query it is given.
NextResults(query) ==
    { [resp |-> [status |-> "success", query |-> query, headers |-> "", by |-> "next"],
       err |-> NilErr],
      [resp |-> NilResp, err |-> RawErr("next")] }

\* Errors of engine.NewRangeQuery and of the evaluation (res.Err).
RangeQueryErrs == {NilErr, RawErr("range query")}
EvalErrs == {NilErr, RawErr("ErrQueryCanceled"), RawErr("ErrQueryTimeout"),
             RawErr("ErrStorage"), RawErr("other")}
\* shardedQueryable.getResponseHeaders()
ResponseHeaders == {"", "warning"}

\* FromResult(res): the error of the result, if any.
FromResultErr(resErr) == resErr

(***************************************************************************)
(* The code of querySharding.Do, by parts.                                 *)
(***************************************************************************)
\* prometheus Counter.Add(n) (Inc() is Add(1)): one atomic addition.
CounterSet(c, n) == n
CounterAdd(c, n) == c + n

\* Histogram.Observe(v), kept as the count and the sum of the observations.
Observe(h, v) == [count |-> h.count + 1, sum |-> h.sum + v]

\* Lines 102-105: the shard count Do works with.
TenantDefaultOnly(rq) ==
    SmallestPositiveIntPerTenant(rq.ctx, QueryShardingTotalShards)
EffectiveTotalShards(rq) ==
    LET default == SmallestPositiveIntPerTenant(rq.ctx, QueryShardingTotalShards)
    IN IF rq.TotalShards > 0 THEN rq.TotalShards ELSE default

\* Line 107: sharding is off for this request.
DisabledBelowOne(rq, shards) == rq.ShardingDisabled \/ shards < 1
ShardingOff(rq, shards) == rq.ShardingDisabled \/ shards <= 1

\* Lines 188-206: shardQuery(query, totalShards).
shardQuery(query, shards) ==
    IF NewShardingErr(shards) # NilErr
    THEN [query |-> EmptyQuery, stats |-> NilStats, err |-> NewShardingErr(shards)]
    ELSE IF ParseExprErr(query) # NilErr
    THEN [query |-> EmptyQuery, stats |-> NilStats,
          err |-> ApiError("bad_data", ParseExprErr(query))]
    ELSE LET m == Map(query, shards)
         IN IF m.err # NilErr
            THEN [query |-> EmptyQuery, stats |-> NilStats, err |-> m.err]
            ELSE [query |-> m.query, stats |-> m.sharded, err |-> NilErr]

\* Line 117: the rewrite failed or sharded nothing.
FallsBackOnZeroOnly(pl) == pl.err = NilErr /\ pl.stats = 0
FallsBackOnErrorOnly(pl) == pl.err # NilErr
FallsBack(pl) == pl.err # NilErr \/ pl.stats = 0

\* Lines 109 and 124: the query of the request handed to s.next.Do, given the
\* query of r and the outcome of shardQuery (r.WithQuery comes at line 138).
ForwardedRewritten(q, pl) == IF pl.stats = NilStats /\ pl.err = NilErr THEN q ELSE pl.query
Forwarded(q, pl) == q

\* Lines 109-136: the step that follows a step of Do, given the outcome of
\* shardQuery (still nil before line 113).
FlowMetricsFirst(step, pl) ==
    CASE step = "forward" -> "done"
      [] step = "attempt" -> "plan"
      [] step = "plan"    -> "success"
      [] step = "success" -> "add"
      [] step = "add"     -> "observe"
      [] step = "observe" -> IF FallsBack(pl) THEN "forward" ELSE "build"
FlowFallsThrough(step, pl) ==
    CASE step = "forward" -> IF pl.stats = NilStats /\ pl.err = NilErr
                             THEN "attempt" ELSE "success"
      [] step = "attempt" -> "plan"
      [] step = "plan"    -> IF FallsBack(pl) THEN "forward" ELSE "success"
      [] step = "success" -> "add"
      [] step = "add"     -> "observe"
      [] step = "observe" -> "build"
FlowSkipsAdd(step, pl) ==
    CASE step = "forward" -> "done"
      [] step = "attempt" -> "plan"
      [] step = "plan"    -> IF FallsBack(pl) THEN "forward" ELSE "success"
      [] step = "success" -> "observe"
      [] step = "add"     -> "observe"
      [] step = "observe" -> "build"
Flow(step, pl) ==
    CASE step = "forward" -> "done"
      [] step = "attempt" -> "plan"
      [] step = "plan"    -> IF FallsBack(pl) THEN "forward" ELSE "success"
      [] step = "success" -> "add"
      [] step = "add"     -> "observe"
      [] step = "observe" -> "build"

\* Lines 167-183: mapEngineError(err).
mapEngineError(err) ==
    IF err = NilErr THEN NilErr
    ELSE ApiError(CASE err.cause = "ErrQueryCanceled" -> "canceled"
                    [] err.cause = "ErrQueryTimeout"  -> "timeout"
                    [] err.cause = "ErrStorage"       -> "internal"
                    [] OTHER                          -> "internal", err)

\* Lines 157-164: the response of a sharded evaluation.
PrometheusResponse(query, headers) ==
    [status |-> "success", query |-> query, headers |-> headers, by |-> "engine"]

\* Lines 152-164: what Do returns after qry.Exec.
ExecReturnsPartial(query, resErr, headers) ==
    [resp |-> PrometheusResponse(query, headers),
     err |-> mapEngineError(FromResultErr(resErr))]
ExecReturns(query, resErr, headers) ==
    IF FromResultErr(resErr) # NilErr
    THEN [resp |-> NilResp, err |-> mapEngineError(FromResultErr(resErr))]
    ELSE [resp |-> PrometheusResponse(query, headers), err |-> NilErr]

(***************************************************************************)
(* State.                                                                  *)
(***************************************************************************)
VARIABLES
    shardingAttempts,        \* queryShardingMetrics counters
    shardingSuccesses,
    shardedQueries,
    shardedQueriesPerQuery,  \* histogram
    pc,                      \* position of each goroutine inside Do
    req,                     \* the request Do was called with
    r,                       \* the query of the local r
    totalShards,             \* local totalShards
    plan,                    \* (shardedQuery, shardingStats, err) of shardQuery
    queryStats,              \* sharded queries added to the request's stats
    nextReq,                 \* queries Do passed to s.next.Do, in order
    nextRet,                 \* what s.next.Do returned
    res,                     \* the evaluation: res.Err and the response headers
    ret,                     \* what Do returned
    trace,                   \* the steps Do entered, in order
    contrib,                 \* what the request's own steps added to the counters
    admitted,                \* requests admitted so far
    finished                 \* tallies over the requests that have returned

\* State of the series merge iterator and of the series set.
VARIABLES
    chunksIn,                \* the chunk list the series was constructed from
    it,                      \* the merge iterator of the current series
    seen,                    \* the points made current by calls that returned true
    last,                    \* the last call on the iterator and what it returned
    set,                     \* the series set: its entries and its position
    emitted                  \* the label sets the series set has emitted, in order

mergeVars == <<chunksIn, it, seen, last, set, emitted>>

\* State of a forwarding promise and of the goroutines that use it.
VARIABLES
    promise,                 \* the Promise: timeout, propagateErrors, doneCh, err
    waiter,                  \* per waiting goroutine: its call and where it is in it
    sets,                    \* what has happened to the promise: setError calls, timeouts, done
    callback,                \* the goroutine Send started, if Send made the promise
    now                      \* the time

forwardingVars == <<promise, waiter, sets, callback, now>>

\* State of the mock cache and of the goroutines that call it.
VARIABLES
    cache,                   \* MockCache.cache: key -> item
    counts,                  \* storeCount and fetchCount of the instrumented cache
    caller,                  \* per calling goroutine: its call and where it is in it
    calls,                   \* the calls made on the cache, in order
    clock                    \* time.Now() as the cache reads it

cacheVars == <<cache, counts, caller, calls, clock>>

counters == <<shardingAttempts, shardingSuccesses, shardedQueries, shardedQueriesPerQuery>>
locals == <<req, r, totalShards, plan, queryStats, nextReq, nextRet, res, ret>>
shardingVars == <<counters, pc, locals, trace, contrib, admitted, finished>>
vars == <<shardingVars, mergeVars, forwardingVars, cacheVars>>

NilPlan == [query |-> EmptyQuery, stats |-> NilStats, err |-> NilErr]
NilRes == [err |-> NilErr, headers |-> ""]
NoContrib == [attempts |-> 0, successes |-> 0, sharded |-> 0, observed |-> 0]

\* The middleware as NewQueryShardingMiddleware returns it.
InitSharding ==
    /\ shardingAttempts = 0
    /\ shardingSuccesses = 0
    /\ shardedQueries = 0
    /\ shardedQueriesPerQuery = [count |-> 0, sum |-> 0]
    /\ pc = [p \in Procs |-> "idle"]
    /\ req = [p \in Procs |-> NoRequest]
    /\ r = [p \in Procs |-> EmptyQuery]
    /\ totalShards = [p \in Procs |-> 0]
    /\ plan = [p \in Procs |-> NilPlan]
    /\ queryStats = [p \in Procs |-> 0]
    /\ nextReq = [p \in Procs |-> <<>>]
    /\ nextRet = [p \in Procs |-> NilRet]
    /\ res = [p \in Procs |-> NilRes]
    /\ ret = [p \in Procs |-> NilRet]
    /\ trace = [p \in Procs |-> <<>>]
    /\ contrib = [p \in Procs |-> NoContrib]
    /\ admitted = 0
    /\ finished = [attempts |-> 0, successes |-> 0, sharded |-> 0]

\* No series is being iterated.
MergeAtRest ==
    /\ chunksIn = <<>>
    /\ it = [labels |-> "", chunks |-> <<>>, i |-> 0, j |-> 0, lastT |-> -1,
             valid |-> FALSE, err |-> ""]
    /\ seen = <<>>
    /\ last = [op |-> "none", ok |-> FALSE, pattern |-> "none", onFailed |-> FALSE]
    /\ set = [series |-> <<>>, next |-> 0, state |-> "new"]
    /\ emitted = <<>>

\* No promise has been made.
ForwardingAtRest ==
    /\ promise = <<>>
    /\ waiter = <<>>
    /\ sets = <<>>
    /\ callback = "none"
    /\ now = 0

\* No cache has been made.
CacheAtRest ==
    /\ cache = <<>>
    /\ counts = <<>>
    /\ caller = <<>>
    /\ calls = <<>>
    /\ clock = 0

Init == InitSharding /\ MergeAtRest /\ ForwardingAtRest /\ CacheAtRest

\* Move goroutine p to step s.
Goto(p, s) ==
    /\ pc' = [pc EXCEPT ![p] = s]
    /\ trace' = [trace EXCEPT ![p] = Append(@, s)]

\* The request's own steps changed the counters by this much.
Contribute(p) ==
    contrib' = [contrib EXCEPT ![p] =
        [attempts  |-> @.attempts + (shardingAttempts' - shardingAttempts),
         successes |-> @.successes + (shardingSuccesses' - shardingSuccesses),
         sharded   |-> @.sharded + (shardedQueries' - shardedQueries),
         observed  |-> @.observed + (shardedQueriesPerQuery'.count
                                     - shardedQueriesPerQuery.count)]]

Entered(p, s) == \E i \in 1..Len(trace[p]) : trace[p][i] = s
Times(p, s) == Cardinality({i \in 1..Len(trace[p]) : trace[p][i] = s})

\* Lines 93-110: a goroutine calls Do(ctx, rq), which resolves the tenants,
\* computes totalShards and decides; all of it local to the call.
Decide(p) ==
    /\ pc[p] = "idle"
    /\ admitted < MaxRequests
    /\ admitted' = admitted + 1
    /\ \E rq \in Requests :
        /\ req' = [req EXCEPT ![p] = rq]
        /\ r' = [r EXCEPT ![p] = rq.Query]
        /\ IF TenantIDsErr(rq.ctx) # NilErr
           THEN /\ ret' = [ret EXCEPT ![p] =
                      [resp |-> NilResp, err |-> ApiError("bad_data", TenantIDsErr(rq.ctx))]]
                /\ Goto(p, "done")
                /\ UNCHANGED totalShards
           ELSE /\ totalShards' = [totalShards EXCEPT ![p] = EffectiveTotalShards(rq)]
                /\ Goto(p, IF ShardingOff(rq, totalShards'[p]) THEN "forward" ELSE "attempt")
                /\ UNCHANGED ret
    /\ UNCHANGED <<counters, plan, queryStats, nextReq, nextRet, res, contrib, finished, mergeVars, forwardingVars, cacheVars>>

\* Lines 109 and 124: return s.next.Do(ctx, r).
Forward(p) ==
    /\ pc[p] = "forward"
    /\ LET q == Forwarded(r[p], plan[p])
       IN /\ nextReq' = [nextReq EXCEPT ![p] = Append(@, q)]
          /\ \E out \in NextResults(q) :
                /\ nextRet' = [nextRet EXCEPT ![p] = out]
                /\ ret' = [ret EXCEPT ![p] = out]
    /\ Goto(p, Flow("forward", plan[p]))
    /\ UNCHANGED <<counters, req, r, totalShards, plan, queryStats, res,
                   contrib, admitted, finished, mergeVars, forwardingVars, cacheVars>>

\* Line 112: s.shardingAttempts.Inc().
Attempt(p) ==
    /\ pc[p] = "attempt"
    /\ shardingAttempts' = CounterAdd(shardingAttempts, 1)
    /\ UNCHANGED <<shardingSuccesses, shardedQueries, shardedQueriesPerQuery>>
    /\ Contribute(p)
    /\ Goto(p, Flow("attempt", plan[p]))
    /\ UNCHANGED <<locals, admitted, finished, mergeVars, forwardingVars, cacheVars>>

\* Lines 113-125: shardQuery and the fallback test.
Plan(p) ==
    /\ pc[p] = "plan"
    /\ plan' = [plan EXCEPT ![p] = shardQuery(r[p], totalShards[p])]
    /\ Goto(p, Flow("plan", plan'[p]))
    /\ UNCHANGED <<counters, req, r, totalShards, queryStats, nextReq, nextRet, res, ret,
                   contrib, admitted, finished, mergeVars, forwardingVars, cacheVars>>

\* Line 130: s.shardingSuccesses.Inc().
Success(p) ==
    /\ pc[p] = "success"
    /\ shardingSuccesses' = CounterAdd(shardingSuccesses, 1)
    /\ UNCHANGED <<shardingAttempts, shardedQueries, shardedQueriesPerQuery>>
    /\ Contribute(p)
    /\ Goto(p, Flow("success", plan[p]))
    /\ UNCHANGED <<locals, admitted, finished, mergeVars, forwardingVars, cacheVars>>

\* Line 131: s.shardedQueries.Add(shardingStats.GetShardedQueries()).
AddSharded(p) ==
    /\ pc[p] = "add"
    /\ shardedQueries' = CounterAdd(shardedQueries, plan[p].stats)
    /\ UNCHANGED <<shardingAttempts, shardingSuccesses, shardedQueriesPerQuery>>
    /\ Contribute(p)
    /\ Goto(p, Flow("add", plan[p]))
    /\ UNCHANGED <<locals, admitted, finished, mergeVars, forwardingVars, cacheVars>>

\* Line 132: s.shardedQueriesPerQuery.Observe(...).
ObserveSharded(p) ==
    /\ pc[p] = "observe"
    /\ shardedQueriesPerQuery' = Observe(shardedQueriesPerQuery, plan[p].stats)
    /\ UNCHANGED <<shardingAttempts, shardingSuccesses, shardedQueries>>
    /\ Contribute(p)
    /\ Goto(p, Flow("observe", plan[p]))
    /\ UNCHANGED <<locals, admitted, finished, mergeVars, forwardingVars, cacheVars>>

\* Lines 135-150: the query stats, r.WithQuery, NewShardedQueryable and
\* engine.NewRangeQuery.
Build(p) ==
    /\ pc[p] = "build"
    /\ queryStats' = [queryStats EXCEPT ![p] = @ + plan[p].stats]
    /\ r' = [r EXCEPT ![p] = plan[p].query]
    /\ \E err \in RangeQueryErrs :
        IF err # NilErr
        THEN /\ ret' = [ret EXCEPT ![p] = [resp |-> NilResp, err |-> err]]
             /\ Goto(p, "done")
        ELSE /\ Goto(p, "exec")
             /\ UNCHANGED ret
    /\ UNCHANGED <<counters, req, totalShards, plan, nextReq, nextRet, res,
                   contrib, admitted, finished, mergeVars, forwardingVars, cacheVars>>

\* Lines 152-164: qry.Exec, FromResult and the response.
Exec(p) ==
    /\ pc[p] = "exec"
    /\ \E resErr \in EvalErrs, headers \in ResponseHeaders :
        /\ res' = [res EXCEPT ![p] = [err |-> resErr, headers |-> headers]]
        /\ ret' = [ret EXCEPT ![p] = ExecReturns(r[p], resErr, headers)]
    /\ Goto(p, "done")
    /\ UNCHANGED <<counters, req, r, totalShards, plan, queryStats, nextReq, nextRet,
                   contrib, admitted, finished, mergeVars, forwardingVars, cacheVars>>

\* Do has returned to its caller; the goroutine is free for another request.
Return(p) ==
    /\ pc[p] = "done"
    /\ finished' = [attempts  |-> finished.attempts + Times(p, "plan"),
                    successes |-> finished.successes + Times(p, "add"),
                    sharded   |-> finished.sharded
                                  + (IF Entered(p, "observe") THEN plan[p].stats ELSE 0)]
    /\ pc' = [pc EXCEPT ![p] = "idle"]
    /\ trace' = [trace EXCEPT ![p] = <<>>]
    /\ req' = [req EXCEPT ![p] = NoRequest]
    /\ r' = [r EXCEPT ![p] = EmptyQuery]
    /\ totalShards' = [totalShards EXCEPT ![p] = 0]
    /\ plan' = [plan EXCEPT ![p] = NilPlan]
    /\ queryStats' = [queryStats EXCEPT ![p] = 0]
    /\ nextReq' = [nextReq EXCEPT ![p] = <<>>]
    /\ nextRet' = [nextRet EXCEPT ![p] = NilRet]
    /\ res' = [res EXCEPT ![p] = NilRes]
    /\ ret' = [ret EXCEPT ![p] = NilRet]
    /\ contrib' = [contrib EXCEPT ![p] = NoContrib]
    /\ UNCHANGED <<counters, admitted, mergeVars, forwardingVars, cacheVars>>

\* One step of goroutine p inside Do.
DoStep(p) ==
    \/ Forward(p)
    \/ Attempt(p)
    \/ Plan(p)
    \/ Success(p)
    \/ AddSharded(p)
    \/ ObserveSharded(p)
    \/ Build(p)
    \/ Exec(p)

Next == \E p \in Procs : Decide(p) \/ DoStep(p) \/ Return(p)

Spec == Init /\ [][Next]_vars

\* The collaborators return: a goroutine inside Do keeps taking steps.
FairSpec == Spec /\ \A p \in Procs : WF_vars(DoStep(p))

TypeOK ==
    /\ shardingAttempts \in Nat /\ shardingSuccesses \in Nat /\ shardedQueries \in Nat
    /\ admitted \in 0..MaxRequests
    /\ \A p \in Procs : pc[p] \in {"idle", "forward", "attempt", "plan",
                                   "success", "add", "observe", "build", "exec", "done"}

(***************************************************************************)
(* Properties of querySharding.Do.                                         *)
(***************************************************************************)
Done(p) == pc[p] = "done"
Called(p) == pc[p] # "idle"
PlannerInvoked(p) == plan[p] # NilPlan
EndsUnsharded(p) == Done(p) /\ Entered(p, "forward")
EndsSharded(p) == Done(p) /\ Entered(p, "build")
EndsTenantError(p) == Done(p) /\ ~Entered(p, "forward") /\ ~Entered(p, "build")

\* The configured default of a request: the smallest positive limit among
\* its tenants, 0 when none is positive.
ConfiguredDefault(rq) ==
    LET lim == {QueryShardingTotalShards[t] : t \in rq.ctx}
    IN IF \E n \in lim : n > 0
       THEN CHOOSE n \in lim : n > 0 /\ \A m \in lim : m > 0 => n <= m
       ELSE 0
ClaimedShardCount(rq) == IF rq.TotalShards > 0 THEN rq.TotalShards ELSE ConfiguredDefault(rq)

\* C1: a request (with resolved tenants) that has ShardingDisabled set or an
\* effective shard count <= 1 never reaches the attempt counter or the
\* planner, adds nothing to the attempt counter, and is handed to the next
\* handler, whose result is what Do returns.
C1_DisabledSkipsPlanner ==
    \A p \in Procs :
        (Called(p) /\ req[p].ctx # {}
         /\ (req[p].ShardingDisabled \/ ClaimedShardCount(req[p]) <= 1))
        => /\ ~PlannerInvoked(p)
           /\ ~Entered(p, "attempt") /\ ~Entered(p, "plan")
           /\ contrib[p].attempts = 0
           /\ (Done(p) => Len(nextReq[p]) = 1 /\ ret[p] = nextRet[p])

C1_Witness ==
    \E p \in Procs :
        /\ Done(p) /\ ~req[p].ShardingDisabled
        /\ req[p].TotalShards = 1 /\ ConfiguredDefault(req[p]) >= 2
        /\ Len(nextReq[p]) = 1 /\ ~PlannerInvoked(p)

\* C2: when shardQuery returned an error (a parse error included), Do has
\* called the next handler once with the request and returns exactly what
\* the next handler returned.
C2_PlanErrorFallsBack ==
    \A p \in Procs :
        (Done(p) /\ plan[p].err # NilErr)
        => /\ Len(nextReq[p]) = 1
           /\ nextRet[p] \in NextResults(req[p].Query)
           /\ ret[p] = nextRet[p]
           /\ ret[p].err # plan[p].err

C2_Witness ==
    \E p \in Procs :
        /\ Done(p) /\ plan[p].err = ApiError("bad_data", RawErr("parse"))
        /\ Len(nextReq[p]) = 1 /\ ret[p].err = RawErr("next")

\* C3: a plan that succeeded with zero sharded queries never enters the
\* sharded path and is forwarded to the next handler; the sharded path is
\* entered only after a plan without error and with at least one sharded query.
C3_ZeroShardsUnsharded ==
    \A p \in Procs :
        /\ (PlannerInvoked(p) /\ plan[p].err = NilErr /\ plan[p].stats = 0)
           => /\ ~Entered(p, "success") /\ ~Entered(p, "build") /\ ~Entered(p, "exec")
              /\ Entered(p, "forward")
              /\ (Done(p) => Len(nextReq[p]) = 1)
        /\ (Entered(p, "success") \/ Entered(p, "build") \/ Entered(p, "exec"))
           => (PlannerInvoked(p) /\ plan[p].err = NilErr /\ plan[p].stats >= 1)

C3_Witness ==
    \E p \in Procs :
        /\ Done(p) /\ PlannerInvoked(p) /\ plan[p].err = NilErr /\ plan[p].stats = 0
        /\ Len(nextReq[p]) = 1 /\ ret[p].resp.by = "next"

\* C4: on every path that ends in Unsharded the next handler got the
\* original query of the request, never a rewritten one, and Do returns the
\* next handler's response and error unchanged.
C4_UnshardedForwardsOriginal ==
    \A p \in Procs :
        EndsUnsharded(p)
        => /\ nextReq[p] = <<req[p].Query>>
           /\ nextReq[p][1] \in Queries
           /\ ret[p] = nextRet[p]
           /\ (ret[p].err = NilErr => ret[p].resp.query = req[p].Query)

C4_Witness ==
    \E p \in Procs :
        /\ EndsUnsharded(p) /\ plan[p].err = RawErr("map")
        /\ ret[p].resp.status = "success" /\ ret[p].resp.query = req[p].Query

\* C5: once Do has decided, its shard count is the request's TotalShards when
\* that is > 0 and the configured default otherwise; an override >= 2 starts
\* a sharding attempt whatever the default, an override of 1 prevents it.
C5_EffectiveShardCount ==
    \A p \in Procs :
        (Entered(p, "forward") \/ Entered(p, "attempt"))
        => /\ (req[p].TotalShards > 0 => totalShards[p] = req[p].TotalShards)
           /\ (req[p].TotalShards = 0 => totalShards[p] = ConfiguredDefault(req[p]))
           /\ (req[p].TotalShards >= 2 /\ ~req[p].ShardingDisabled => Entered(p, "attempt"))
           /\ (req[p].TotalShards = 1 => ~Entered(p, "attempt"))

C5_Witness ==
    \E p \in Procs :
        /\ pc[p] = "plan" /\ req[p].TotalShards = 2
        /\ ConfiguredDefault(req[p]) = 0 /\ totalShards[p] = 2

\* The API error type the taxonomy assigns to an engine error.
ClassOf(err) ==
    CASE err.cause = "ErrQueryCanceled" -> "canceled"
      [] err.cause = "ErrQueryTimeout"  -> "timeout"
      [] OTHER                          -> "internal"

\* C6: every error Do returns from the sharded path (building the range
\* query or evaluating it) is an API error of the type of its cause:
\* canceled, timeout, or internal for a storage or any other error.
C6_ShardedErrorsClassified ==
    \A p \in Procs :
        (EndsSharded(p) /\ ret[p].err # NilErr)
        => /\ ret[p].err.kind = "api"
           /\ ret[p].err.type = ClassOf(ret[p].err)

\* C7: Do returns exactly one of a response and an error; after a failed
\* sharded evaluation it returns an error and no response, and the success
\* response (with the accumulated headers) only when the evaluation had no error.
C7_ResponseXorError ==
    \A p \in Procs :
        Done(p)
        => /\ (ret[p].resp = NilResp) # (ret[p].err = NilErr)
           /\ Entered(p, "exec")
              => /\ (res[p].err # NilErr => ret[p].resp = NilResp /\ ret[p].err # NilErr)
                 /\ (ret[p].resp # NilResp
                     => /\ res[p].err = NilErr
                        /\ ret[p].resp.status = "success"
                        /\ ret[p].resp.headers = res[p].headers
                        /\ ret[p].resp.query = plan[p].query)

C7_Witness ==
    \E p \in Procs :
        /\ Done(p) /\ Entered(p, "exec")
        /\ res[p].err = RawErr("ErrStorage") /\ res[p].headers = "warning"
        /\ ret[p].resp = NilResp /\ ret[p].err.type = "internal"

\* C8 as stated: a request that ends in Unsharded has changed none of the
\* attempt, success and sharded-queries counters.
C8_UnshardedChangesNoCounter ==
    \A p \in Procs :
        EndsUnsharded(p)
        => contrib[p].attempts = 0 /\ contrib[p].successes = 0 /\ contrib[p].sharded = 0

\* C8 amended: a request that ends in Unsharded has changed neither the
\* success nor the sharded-queries counter (nor the histogram); it has added
\* exactly one to the attempt counter when it got there through the planner
\* (planning error or zero-shard plan) and nothing when it got there directly.
C8_UnshardedCountsAttemptOnly ==
    \A p \in Procs :
        EndsUnsharded(p)
        => /\ contrib[p].successes = 0 /\ contrib[p].sharded = 0
           /\ contrib[p].observed = 0
           /\ contrib[p].attempts = (IF PlannerInvoked(p) THEN 1 ELSE 0)

C8_Witness ==
    \E p \in Procs :
        /\ EndsUnsharded(p) /\ PlannerInvoked(p) /\ plan[p].stats = 0
        /\ contrib[p].attempts = 1 /\ contrib[p].successes = 0

\* The steps of one call of Do.
Steps == {"forward", "attempt", "plan", "success", "add", "observe",
          "build", "exec", "done"}

OnePass ==
    \A p \in Procs :
        /\ \A s \in Steps : Times(p, s) <= 1
        /\ Len(nextReq[p]) <= 1
        /\ Done(p) =>
            \/ /\ EndsTenantError(p) /\ nextReq[p] = <<>> /\ ~PlannerInvoked(p)
            \/ /\ EndsUnsharded(p) /\ ~Entered(p, "build") /\ Len(nextReq[p]) = 1
            \/ /\ EndsSharded(p) /\ ~Entered(p, "forward") /\ nextReq[p] = <<>>

\* C9: a call of Do enters no step twice, invokes the planner at most once
\* and the next handler at most once (once on Unsharded, not at all on
\* Execute-Sharded), ends in exactly one of tenant error, Unsharded and
\* Execute-Sharded, and, the collaborators returning, does end.
C9_OnePassTerminates ==
    /\ []OnePass
    /\ \A p \in Procs : (pc[p] # "idle") ~> (pc[p] = "done")

C9_Witness ==
    \E p \in Procs :
        trace[p] = <<"attempt", "plan", "success", "add", "observe",
                     "build", "exec", "done">>

RECURSIVE SumOver(_, _)
SumOver(S, f) ==
    IF S = {} THEN 0
    ELSE LET p == CHOOSE x \in S : TRUE IN f[p] + SumOver(S \ {p}, f)

\* Every increment is in the counter: requests that returned plus requests
\* in flight that are past the incrementing line.
NoIncrementLost ==
    /\ shardingAttempts = finished.attempts
         + SumOver(Procs, [p \in Procs |-> Times(p, "plan")])
    /\ shardingSuccesses = finished.successes
         + SumOver(Procs, [p \in Procs |-> Times(p, "add")])
    /\ shardedQueries = finished.sharded
         + SumOver(Procs, [p \in Procs |->
                IF Entered(p, "observe") THEN plan[p].stats ELSE 0])

RouteOf(p) ==
    IF Entered(p, "build") THEN "sharded"
    ELSE IF Entered(p, "forward") THEN "unsharded" ELSE "tenant error"

\* Equal requests are routed equally, whatever the counters were.
RoutingIgnoresCounters ==
    \A p, q \in Procs :
        (Done(p) /\ Done(q) /\ req[p] = req[q]) => RouteOf(p) = RouteOf(q)

CountersNeverDecrease ==
    /\ shardingAttempts' >= shardingAttempts
    /\ shardingSuccesses' >= shardingSuccesses
    /\ shardedQueries' >= shardedQueries
    /\ shardedQueriesPerQuery'.count >= shardedQueriesPerQuery.count

\* C10: under any interleaving of requests no counter ever decreases, no
\* increment is lost, and how a request is routed depends on the request
\* and the configuration only.
C10_CountersOnly ==
    /\ [][CountersNeverDecrease]_vars
    /\ [](NoIncrementLost /\ RoutingIgnoresCounters)

C10_Witness ==
    /\ shardingAttempts = 2 /\ shardingSuccesses = 2
    /\ \A p \in Procs : pc[p] = "observe"
    /\ \E p, q \in Procs : p # q /\ req[p] = req[q]

\* Requests between the increment of the success counter (line 130) and the
\* addition to the sharded-queries counter (line 131).
BetweenSuccessAndAdd == Cardinality({p \in Procs : pc[p] = "add"})

\* C31: in every reachable state the success counter is at most the attempt
\* counter and the sharded-queries counter is at least the success counter.
C31_CounterOrder ==
    /\ shardingSuccesses <= shardingAttempts
    /\ shardedQueries >= shardingSuccesses

\* C31 (amended): the success counter is at most the attempt counter in every
\* state; the sharded-queries counter is at least the success counter less
\* the requests that have counted their success and not yet added their
\* sharded queries, so at least the success counter when there is none.
C31_CounterOrderUpToInFlight ==
    /\ shardingSuccesses <= shardingAttempts
    /\ shardedQueries >= shardingSuccesses - BetweenSuccessAndAdd
    /\ BetweenSuccessAndAdd = 0 => shardedQueries >= shardingSuccesses

C31_Witness ==
    /\ shardingAttempts = 2 /\ shardingSuccesses = 2
    /\ BetweenSuccessAndAdd = 1
    /\ shardedQueries >= 1 /\ shardedQueries < 4

\* C32: a request whose context carries no tenant ID returns a bad-data API
\* error at once: nothing is passed to the next handler, the planner is not
\* invoked, and its steps change no counter.
C32_TenantErrorReturnsAtOnce ==
    \A p \in Procs :
        Called(p) /\ req[p].ctx = {} =>
            /\ trace[p] = <<"done">>
            /\ ret[p].resp = NilResp
            /\ ret[p].err.kind = "api" /\ ret[p].err.type = "bad_data"
            /\ nextReq[p] = <<>> /\ nextRet[p] = NilRet
            /\ ~PlannerInvoked(p)
            /\ contrib[p] = NoContrib
            /\ queryStats[p] = 0

C32_Witness ==
    \E p \in Procs :
        /\ EndsTenantError(p)
        /\ req[p].ctx = {}
        /\ req[p].TotalShards = 2 /\ ~req[p].ShardingDisabled
        /\ req[p].Query.text = "sum(up)"
        /\ ret[p].err.type = "bad_data"
        /\ shardingAttempts = 0

(***************************************************************************)
(* The series merge iterator: chunks, series, iterator.                    *)
(***************************************************************************)
\* Chunks a series may be constructed from, at most.
MaxChunks == 3

\* The targets Seek is called with.
SeekTimes == {1, 2, 3, 4}

\* math.Sin(float64(t)), kept as a value that identifies t.
Sine(t) == 10 * t

RECURSIVE InsertSample(_, _)
InsertSample(sorted, x) ==
    IF sorted = <<>> THEN <<x>>
    ELSE IF x.T < Head(sorted).T THEN <<x>> \o sorted
    ELSE <<Head(sorted)>> \o InsertSample(Tail(sorted), x)

\* sort.Slice(samples, less by T)
RECURSIVE SortSamples(_)
SortSamples(samples) ==
    IF samples = <<>> THEN <<>>
    ELSE InsertSample(SortSamples(SubSeq(samples, 1, Len(samples) - 1)),
                      samples[Len(samples)])

\* createAggrChunk(minTime, maxTime, samples...): the samples, sorted by
\* timestamp, appended to an XOR chunk.
createAggrChunkUnsorted(minTime, maxTime, samples) ==
    [MinTime |-> minTime, MaxTime |-> maxTime, samples |-> samples, ok |-> TRUE]
createAggrChunk(minTime, maxTime, samples) ==
    [MinTime |-> minTime, MaxTime |-> maxTime, samples |-> SortSamples(samples), ok |-> TRUE]

\* The for loop of createAggrChunkWithSineSamples: t from minT to maxT by step.
RECURSIVE SineSamples(_, _, _)
SineSamples(minT, maxT, step) ==
    IF minT > maxT THEN <<>>
    ELSE <<[T |-> minT, V |-> Sine(minT)]>> \o SineSamples(minT + step, maxT, step)

\* createAggrChunkWithSineSamples(minTime, maxTime, step)
createAggrChunkWithSineSamples(minTime, maxTime, step) ==
    createAggrChunk(minTime, maxTime, SineSamples(minTime, maxTime, step))

\* A chunk whose payload does not decode (Data: []byte{0, 1}).
CorruptChunk == [MinTime |-> 1, MaxTime |-> 3, samples |-> <<>>, ok |-> FALSE]

\* The chunks the series are made of: overlapping, interleaved, with the
\* same bounds and different samples, empty, from unsorted input, corrupt.
ChunkPool == {
    createAggrChunkWithSineSamples(1, 2, 1),
    createAggrChunkWithSineSamples(2, 3, 1),
    createAggrChunkWithSineSamples(1, 3, 2),
    createAggrChunkWithSineSamples(1, 0, 1),
    createAggrChunkWithSineSamples(2, 1, 1),
    createAggrChunk(1, 2, <<[T |-> 2, V |-> 7], [T |-> 1, V |-> 5]>>),
    CorruptChunk }

ChunkLists == UNION {[1..n -> ChunkPool] : n \in 0..MaxChunks}

\* The order of the chunks of a series: by MinTime, then by MaxTime.
ChunkLessByMinOnly(a, b) == a.MinTime < b.MinTime
ChunkLess(a, b) ==
    \/ a.MinTime < b.MinTime
    \/ a.MinTime = b.MinTime /\ a.MaxTime < b.MaxTime

RECURSIVE InsertChunk(_, _)
InsertChunk(sorted, c) ==
    IF sorted = <<>> THEN <<c>>
    ELSE IF ChunkLess(c, Head(sorted)) THEN <<c>> \o sorted
    ELSE <<Head(sorted)>> \o InsertChunk(Tail(sorted), c)

RECURSIVE SortChunks(_)
SortChunks(chunks) ==
    IF chunks = <<>> THEN <<>>
    ELSE InsertChunk(SortChunks(SubSeq(chunks, 1, Len(chunks) - 1)), chunks[Len(chunks)])

\* newBlockQuerierSeries(lbls, chunks): the series with its chunks in order.
newBlockQuerierSeries(lbls, chunks) == [labels |-> lbls, chunks |-> SortChunks(chunks)]

NoTime == -1

\* series.Iterator(): positioned before the first chunk, no cursor open yet;
\* an error iterator for a series without chunks.
IteratorUnchecked(series) ==
    [labels |-> series.labels, chunks |-> series.chunks, i |-> 0, j |-> 0,
     lastT |-> NoTime, valid |-> FALSE, err |-> ""]
Iterator(series) ==
    [labels |-> series.labels, chunks |-> series.chunks, i |-> 0, j |-> 0,
     lastT |-> NoTime, valid |-> FALSE,
     err |-> IF Len(series.chunks) = 0 THEN "no chunks" ELSE ""]

\* it.At(): the current point.
At(itr) == itr.chunks[itr.i].samples[itr.j]

\* it.Err()
NoIterErr == [msg |-> "", series |-> ""]
Err(itr) ==
    IF itr.err = "" THEN NoIterErr
    ELSE IF itr.err = "no chunks" THEN [msg |-> "no chunks", series |-> ""]
    ELSE [msg |-> itr.err, series |-> itr.labels]

Exhausted(itr) == itr.i > Len(itr.chunks)

\* What the iterator does at the end of a chunk's cursor: go on with the
\* next chunk of the list.
AfterChunk(itr, i) == i + 1

\* What it does with a chunk that decodes to zero points: the same.
StopAtEmptyChunk(itr, i) == Len(itr.chunks) + 1
AfterEmptyChunk(itr, i) == i + 1

\* The first sample of a cursor, after position j, with a timestamp >=
\* target; 0 when there is none.
FirstInCursor(samples, j, target) ==
    IF j < Len(samples) THEN j + 1 ELSE 0
FirstAtOrAfter(samples, j, target) ==
    LET cand == {k \in (j + 1)..Len(samples) : samples[k].T >= target}
    IN IF cand = {} THEN 0 ELSE CHOOSE k \in cand : \A m \in cand : k <= m

\* The least timestamp Next may yield after lastT.
NextTargetAllowEqual(lastT) == lastT
NextTarget(lastT) == lastT + 1

\* Seek passes an unopened chunk that ends before its target.
SkipsChunkStartingBefore(c, target) == c.MinTime < target
SkipsChunk(c, target) == c.MaxTime < target

\* Advance from cursor position j of chunk i to the first sample with a
\* timestamp >= target, opening the chunks' cursors on the way; with skip, chunks that end before target are passed
\* without being opened.
RECURSIVE Scan(_, _, _, _, _)
Scan(itr, i, j, target, skip) ==
    IF i > Len(itr.chunks)
    THEN [itr EXCEPT !.i = Len(itr.chunks) + 1, !.j = 0, !.valid = FALSE]
    ELSE LET c == itr.chunks[i]
         IN IF skip /\ j = 0 /\ SkipsChunk(c, target)
            THEN Scan(itr, i + 1, 0, target, skip)
            ELSE IF ~c.ok
            THEN [itr EXCEPT !.i = i, !.j = 0, !.valid = FALSE,
                             !.err = "cannot iterate chunk for series"]
            ELSE LET k == FirstAtOrAfter(c.samples, j, target)
                 IN IF k = 0
                    THEN Scan(itr, IF c.samples = <<>> THEN AfterEmptyChunk(itr, i)
                                    ELSE AfterChunk(itr, i), 0, target, skip)
                    ELSE [itr EXCEPT !.i = i, !.j = k, !.valid = TRUE,
                                     !.lastT = c.samples[k].T]

\* Once failed, always failed.
FailedRetry(itr) == [itr EXCEPT !.err = "", !.valid = FALSE]
Failed(itr) == [itr EXCEPT !.valid = FALSE]

\* it.Next()
NextOp(itr) ==
    IF itr.err # "" THEN Failed(itr)
    ELSE IF Exhausted(itr) THEN [itr EXCEPT !.valid = FALSE]
    ELSE Scan(itr, IF itr.i = 0 THEN 1 ELSE itr.i, itr.j, NextTarget(itr.lastT), FALSE)

\* The target Seek(t) scans for.
SeekTargetAfter(t) == t + 1
SeekTarget(t) == t

\* it.Seek(t)
SeekOp(itr, t) ==
    IF itr.err # "" THEN Failed(itr)
    ELSE IF Exhausted(itr) THEN [itr EXCEPT !.valid = FALSE]
    ELSE IF itr.valid /\ At(itr).T >= SeekTarget(t) THEN itr
    ELSE Scan(itr, IF itr.i = 0 THEN 1 ELSE itr.i, itr.j, SeekTarget(t), TRUE)

(***************************************************************************)
(* One series under any sequence of Next and Seek calls.                   *)
(***************************************************************************)
SeriesLabels == "foo=bar"
SetAtRest == set = [series |-> <<>>, next |-> 0, state |-> "new"] /\ emitted = <<>>

MergeInit ==
    /\ InitSharding
    /\ ForwardingAtRest /\ CacheAtRest
    /\ SetAtRest
    /\ chunksIn \in ChunkLists
    /\ it = Iterator(newBlockQuerierSeries(SeriesLabels, chunksIn))
    /\ seen = <<>>
    /\ last = [op |-> "none", ok |-> FALSE, pattern |-> "none", onFailed |-> FALSE]

\* The caller's record of a call: the point it made current, if it moved.
Record(op, before, after) ==
    /\ last' = [op |-> op, ok |-> after.valid,
                pattern |-> IF last.pattern \in {"none", op} THEN op ELSE "mixed",
                onFailed |-> before.err # ""]
    /\ seen' = IF after.valid /\ (~before.valid \/ At(after) # At(before)
                                  \/ <<after.i, after.j>> # <<before.i, before.j>>)
               THEN Append(seen, At(after)) ELSE seen

ItNext ==
    /\ it' = NextOp(it)
    /\ Record("next", it, it')
    /\ UNCHANGED <<chunksIn, set, emitted, shardingVars, forwardingVars, cacheVars>>

ItSeek ==
    /\ \E t \in SeekTimes : it' = SeekOp(it, t)
    /\ Record("seek", it, it')
    /\ UNCHANGED <<chunksIn, set, emitted, shardingVars, forwardingVars, cacheVars>>

MergeNext == ItNext \/ ItSeek

MergeSpec == MergeInit /\ [][MergeNext]_vars

(***************************************************************************)
(* The series set over entries sorted by label set.                        *)
(***************************************************************************)
\* Entries a series set is constructed from, at most.
MaxEntries == 3

\* The __name__ values of the label sets, in label sort order; a label set
\* is identified by its position.
Metrics == <<"first", "overlapping", "second">>

\* The chunk lists of the entries: the second overlaps the first, the
\* third decodes to no point.
SetChunkLists == {
    <<createAggrChunkWithSineSamples(1, 2, 1)>>,
    <<createAggrChunkWithSineSamples(2, 3, 1)>>,
    <<createAggrChunkWithSineSamples(2, 1, 1)>> }

IsSortedByLabels(entries) ==
    \A k \in 1..(Len(entries) - 1) : entries[k].Labels <= entries[k + 1].Labels

\* The inputs of a series set: entries already sorted by label set.
SeriesInputs ==
    {entries \in UNION {[1..n -> [Labels : DOMAIN Metrics, Chunks : SetChunkLists]] :
                            n \in 0..MaxEntries} : IsSortedByLabels(entries)}

\* Two entries are of the same series iff their label sets are equal.
NeverSameSeries(a, b) == FALSE
SameSeries(a, b) == a.Labels = b.Labels

\* The last entry of the run of entries of one series that starts at k.
RECURSIVE RunEnd(_, _)
RunEnd(entries, k) ==
    IF k < Len(entries) /\ SameSeries(entries[k], entries[k + 1])
    THEN RunEnd(entries, k + 1) ELSE k

\* The chunks of the entries a..b, pooled.
RECURSIVE PoolChunks(_, _, _)
PoolChunks(entries, a, b) ==
    IF a > b THEN <<>> ELSE entries[a].Chunks \o PoolChunks(entries, a + 1, b)

SetInit ==
    /\ InitSharding
    /\ ForwardingAtRest /\ CacheAtRest
    /\ set \in [series : SeriesInputs, next : {0}, state : {"new"}]
    /\ chunksIn = <<>>
    /\ it = [labels |-> "", chunks |-> <<>>, i |-> 0, j |-> 0, lastT |-> NoTime,
             valid |-> FALSE, err |-> ""]
    /\ seen = <<>>
    /\ last = [op |-> "none", ok |-> FALSE, pattern |-> "none", onFailed |-> FALSE]
    /\ emitted = <<>>

\* ss.Next(), and for the series it made current ss.At().Iterator(): the
\* next run of entries with equal label sets becomes one series over their
\* pooled chunks.
SetNext ==
    /\ UNCHANGED <<shardingVars, forwardingVars, cacheVars>>
    /\ IF set.next >= Len(set.series)
       THEN /\ set' = [set EXCEPT !.state = "end"]
            /\ UNCHANGED <<chunksIn, it, seen, last, emitted>>
       ELSE LET first == set.next + 1
                end == RunEnd(set.series, first)
                lbls == set.series[first].Labels
                chunks == PoolChunks(set.series, first, end)
            IN /\ set' = [set EXCEPT !.next = end, !.state = "at"]
               /\ chunksIn' = chunks
               /\ it' = Iterator(newBlockQuerierSeries(Metrics[lbls], chunks))
               /\ seen' = <<>>
               /\ last' = [op |-> "none", ok |-> FALSE, pattern |-> "none",
                           onFailed |-> FALSE]
               /\ emitted' = Append(emitted, [Labels |-> lbls, Chunks |-> chunks])

\* The caller iterates the series the set is at.
SetIterate == set.state = "at" /\ (ItNext \/ ItSeek)

SetSpecNext == SetNext \/ SetIterate

SetSpec == SetInit /\ [][SetSpecNext]_vars

(***************************************************************************)
(* Claims about the merge iterator.                                        *)
(***************************************************************************)
Decodable(chunks) == \A k \in DOMAIN chunks : chunks[k].ok
Timestamps(chunk) == {chunk.samples[k].T : k \in DOMAIN chunk.samples}
AllTimestamps(chunks) == UNION {Timestamps(chunks[k]) : k \in DOMAIN chunks}
Overlapping(chunks) ==
    \E a, b \in DOMAIN chunks : a # b /\ Timestamps(chunks[a]) \cap Timestamps(chunks[b]) # {}
SeenTimes == {seen[k].T : k \in DOMAIN seen}

\* The iterator has been run to its end by Next alone.
DrainedByNext == last.pattern = "next" /\ ~last.ok

\* C11: the timestamps of the points made current by calls that returned
\* true never go backward, and each point made current by Next is strictly
\* later than every point yielded before it, whatever the overlap of the
\* chunks.
C11_NeverBackward ==
    /\ [](\A a, b \in DOMAIN seen : a < b => seen[a].T <= seen[b].T)
    /\ [][/\ it'.valid /\ it.valid => At(it').T >= At(it).T
          /\ it'.valid /\ last'.op = "next" =>
                \A k \in DOMAIN seen : At(it').T > seen[k].T]_vars

C11_Witness ==
    /\ Overlapping(chunksIn)
    /\ last.op = "next" /\ last.ok /\ last.pattern = "mixed"
    /\ Len(seen) >= 2
    /\ it.i >= 2

\* The points a sequential pass over the chunks takes: of each chunk, those
\* later than everything taken from the chunks before it.
RECURSIVE TakeInOrder(_, _)
TakeInOrder(chunks, lastT) ==
    IF chunks = <<>> THEN <<>>
    ELSE LET new == SelectSeq(Head(chunks).samples, LAMBDA s : s.T > lastT)
         IN new \o TakeInOrder(Tail(chunks),
                               IF new = <<>> THEN lastT ELSE new[Len(new)].T)

\* C12 (as stated): iterating a decodable chunk list with Next to exhaustion
\* yields every distinct timestamp of any chunk exactly once, and then Err()
\* is nil.
C12_YieldsUnion ==
    DrainedByNext /\ Decodable(chunksIn) =>
        /\ SeenTimes = AllTimestamps(chunksIn)
        /\ Len(seen) = Cardinality(AllTimestamps(chunksIn))
        /\ Err(it) = NoIterErr

\* C12 (amended): iterating a non-empty decodable chunk list with Next to
\* exhaustion yields, chunk by chunk in (MinTime, MaxTime) order, exactly the
\* points later than everything yielded from the chunks before, no timestamp
\* twice and none that is in no chunk; then Err() is nil.
C12_YieldsSequentialTake ==
    DrainedByNext /\ Decodable(chunksIn) /\ chunksIn # <<>> =>
        /\ seen = TakeInOrder(SortChunks(chunksIn), NoTime)
        /\ Len(seen) = Cardinality(SeenTimes)
        /\ SeenTimes \subseteq AllTimestamps(chunksIn)
        /\ Err(it) = NoIterErr

C12_Witness ==
    /\ DrainedByNext /\ Decodable(chunksIn) /\ Overlapping(chunksIn)
    /\ Len(seen) = 3
    /\ SeenTimes = AllTimestamps(chunksIn)

\* The iterator of the series as constructed, before any call.
Fresh == Iterator(newBlockQuerierSeries(SeriesLabels, chunksIn))

\* The points repeated Next yields from a state of the iterator on.
RECURSIVE DrainNext(_)
DrainNext(itr) ==
    LET n == NextOp(itr)
    IN IF n.valid THEN <<At(n)>> \o DrainNext(n) ELSE <<>>

\* The merged stream of the series: what Next alone yields.
Merged == DrainNext(Fresh)

\* The points yielded by one call per expected point, each a Seek to the
\* expected timestamp or (every second call, when alternating) a Next.
RECURSIVE DrainBy(_, _, _, _)
DrainBy(itr, expected, seekNow, alternate) ==
    IF expected = <<>> THEN <<>>
    ELSE LET n == IF seekNow THEN SeekOp(itr, Head(expected).T) ELSE NextOp(itr)
         IN IF n.valid
            THEN <<At(n)>> \o DrainBy(n, Tail(expected),
                                      IF alternate THEN ~seekNow ELSE seekNow, alternate)
            ELSE <<>>

Remaining(itr) ==
    IF itr.valid THEN <<At(itr)>> \o DrainNext(itr) ELSE DrainNext(itr)

Reorderings(chunks) ==
    {[k \in DOMAIN chunks |-> chunks[f[k]]] : f \in Permutations(DOMAIN chunks)}

MergedOf(chunks) == DrainNext(Iterator(newBlockQuerierSeries(SeriesLabels, chunks)))

\* Chunks with the same MinTime and the same MaxTime are the same chunk.
TiesAgree(chunks) ==
    \A a, b \in DOMAIN chunks :
        chunks[a].MinTime = chunks[b].MinTime /\ chunks[a].MaxTime = chunks[b].MaxTime
            => chunks[a] = chunks[b]

\* C15 (as stated): any permutation of the chunk list yields the same
\* sequence of (timestamp, value) pairs.
C15_OrderIrrelevant ==
    DrainedByNext => \A q \in Reorderings(chunksIn) : MergedOf(q) = seen

\* C15 (amended): any permutation of a chunk list in which chunks with equal
\* MinTime and equal MaxTime are equal yields the same sequence of
\* (timestamp, value) pairs.
C15_OrderIrrelevantUpToTies ==
    DrainedByNext /\ TiesAgree(chunksIn) =>
        \A q \in Reorderings(chunksIn) : MergedOf(q) = seen

C15_Witness ==
    /\ DrainedByNext /\ TiesAgree(chunksIn)
    /\ Len(chunksIn) = 3
    /\ chunksIn # SortChunks(chunksIn)
    /\ Len(seen) = 3

\* A chunk that decodes to zero points.
IsEmptyChunk(c) == c.ok /\ c.samples = <<>>
WithoutEmpty(chunks) == SelectSeq(chunks, LAMBDA c : ~IsEmptyChunk(c))
FreshOf(chunks) == Iterator(newBlockQuerierSeries(SeriesLabels, chunks))

\* C16: a chunk that decodes to zero points neither ends the iteration nor
\* raises an error: wherever empty chunks stand in the list, Next and Seek
\* reach the points they reach without them, and a series whose chunks are
\* all empty yields no point and has a nil Err().
C16_EmptyChunksTolerated ==
    /\ DrainedByNext => seen = MergedOf(WithoutEmpty(chunksIn))
    /\ last.op = "none" =>
          \A t \in SeekTimes :
              LET with == SeekOp(it, t)
                  without == SeekOp(FreshOf(WithoutEmpty(chunksIn)), t)
              IN /\ with.valid = without.valid
                 /\ with.valid => At(with) = At(without)
    /\ Decodable(chunksIn) /\ chunksIn # <<>> => Err(it) = NoIterErr
    /\ chunksIn # <<>> /\ WithoutEmpty(chunksIn) = <<>> /\ last.op # "none" =>
          ~last.ok /\ seen = <<>>

C16_Witness ==
    /\ DrainedByNext
    /\ Len(it.chunks) = 3
    /\ ~IsEmptyChunk(it.chunks[1]) /\ IsEmptyChunk(it.chunks[2]) /\ ~IsEmptyChunk(it.chunks[3])
    /\ Len(seen) = 3
    /\ Err(it) = NoIterErr

\* C17: once decoding a chunk has failed, Err() is a non-nil error naming
\* the series' label set, and every later Next or Seek returns false: the
\* error is never cleared and the chunk never retried. Next alone cannot get
\* past a chunk that does not decode.
C17_DecodeErrorSticky ==
    /\ [](it.err = "cannot iterate chunk for series" =>
            /\ Err(it) # NoIterErr /\ Err(it).series = SeriesLabels
            /\ ~it.valid
            /\ ~NextOp(it).valid
            /\ \A t \in SeekTimes : ~SeekOp(it, t).valid)
    /\ [](DrainedByNext /\ ~Decodable(chunksIn) => Err(it) # NoIterErr)
    /\ [][it.err # "" => it'.err = it.err /\ ~last'.ok]_vars

C17_Witness ==
    /\ chunksIn = <<createAggrChunkWithSineSamples(1, 2, 1), CorruptChunk>>
    /\ it.err = "cannot iterate chunk for series"
    /\ Len(seen) = 1
    /\ last.onFailed /\ last.pattern = "mixed"

\* The chunk list with every chunk twice.
Doubled(chunks) == chunks \o chunks
RECURSIVE Twice(_)
Twice(chunks) ==
    IF chunks = <<>> THEN <<>>
    ELSE <<Head(chunks), Head(chunks)>> \o Twice(Tail(chunks))

\* C18: the chunk list with every chunk appearing twice yields the same
\* sequence of (timestamp, value) pairs as the list itself.
C18_DuplicationIdempotent ==
    DrainedByNext =>
        /\ MergedOf(Doubled(chunksIn)) = seen
        /\ MergedOf(Twice(chunksIn)) = seen

C18_Witness ==
    /\ DrainedByNext
    /\ Len(chunksIn) = 2 /\ chunksIn[1] = chunksIn[2]
    /\ Len(seen) = 2

\* C20: a series constructed without any chunk yields no point, and Err()
\* of its iterator reports "no chunks".
C20_NoChunksError ==
    chunksIn = <<>> =>
        /\ Err(it) = [msg |-> "no chunks", series |-> ""]
        /\ ~it.valid /\ seen = <<>> /\ ~last.ok

C20_Witness ==
    /\ chunksIn = <<>>
    /\ last.onFailed /\ last.pattern = "mixed"

(***************************************************************************)
(* Claims about the series set.                                            *)
(***************************************************************************)
EntriesOf(lbls) == {k \in DOMAIN set.series : set.series[k].Labels = lbls}
InputLabels == {set.series[k].Labels : k \in DOMAIN set.series}
EmittedLabels == {emitted[k].Labels : k \in DOMAIN emitted}

\* The chunks of all the entries of one label set, in the order of the input.
RECURSIVE ChunksOf(_, _)
ChunksOf(lbls, k) ==
    IF k > Len(set.series) THEN <<>>
    ELSE (IF set.series[k].Labels = lbls THEN set.series[k].Chunks ELSE <<>>)
         \o ChunksOf(lbls, k + 1)

MaxNow == 3

\* time.Second, in the unit of the clock.
Second == 2

\* The timeouts a promise is made with.
Timeouts == {1, Second}

Waiters == {"w1", "w2"}

\* Error messages, as the pieces fmt reads them: text and formatting verbs.
Messages == {<<"Test error">>, <<"status ", "%d">>}

NoError == [kind |-> "nil", recoverable |-> FALSE, msg |-> <<>>]
testErr == [kind |-> "error", recoverable |-> FALSE, msg |-> <<"Test error">>]
AppErrors == [kind : {"error"}, recoverable : BOOLEAN, msg : Messages]
promiseTimeout ==
    [kind |-> "timeout", recoverable |-> FALSE,
     msg |-> <<"timed out while waiting for forwarding promise">>]

\* errors.As(err, &recoverableError{})
IsRecoverable(err) == err.recoverable

\* NewPromise(timeout, propagateErrors)
NewPromise(timeout, propagateErrors) ==
    [timeout |-> timeout, propagateErrors |-> propagateErrors, doneCh |-> "open",
     err |-> NoError]

\* The guard of setError: nothing is stored for a nil error or when errors
\* are not propagated.
IgnoresOnlyNil(p, err) == err = NoError
Ignores(p, err) == err = NoError \/ ~p.propagateErrors

\* Whether setError replaces the stored error by err.
ReplacesAlways(p, err) == TRUE
Replaces(p, err) ==
    \/ p.err = NoError
    \/ ~IsRecoverable(p.err) /\ IsRecoverable(err)

\* The promise after setError(err).
setErrorLastWins(p, err) == [p EXCEPT !.err = err]
setError(p, err) ==
    IF Ignores(p, err) THEN p
    ELSE IF Replaces(p, err) THEN [p EXCEPT !.err = err]
    ELSE p

\* fmt.Sprintf(format) without arguments: a verb becomes a complaint.
Sprintf(format) ==
    [k \in DOMAIN format |->
        IF format[k] = "%d" THEN "%!d(MISSING)" ELSE format[k]]

\* httpgrpc.Errorf(code, format)
Errorf(code, format) == [code |-> code, body |-> Sprintf(format)]

StatusInternalServerError == 500
StatusBadRequest == 400

\* What ErrorAsHTTPGrpc makes of the error Error() returned.
NoHTTPError == [code |-> 0, body |-> <<>>]
ErrorAsHTTPGrpc(err) ==
    IF err = NoError THEN NoHTTPError
    ELSE IF IsRecoverable(err) THEN Errorf(StatusInternalServerError, err.msg)
    ELSE Errorf(StatusBadRequest, err.msg)

Pending == [kind |-> "pending", recoverable |-> FALSE, msg |-> <<>>]
Idle ==
    [op |-> "none", pc |-> "idle", deadline |-> 0, branch |-> "none",
     result |-> Pending, http |-> NoHTTPError, after |-> FALSE, raced |-> FALSE]
NoHistory == [first |-> NoError, firstRecoverable |-> NoError, timedOut |-> FALSE]

\* A promise made by NewPromise.
PromiseInit ==
    /\ InitSharding /\ MergeAtRest /\ CacheAtRest
    /\ callback = "none"
    /\ promise \in {NewPromise(t, b) : t \in Timeouts, b \in BOOLEAN}
    /\ waiter = [w \in Waiters |-> Idle]
    /\ sets = NoHistory
    /\ now = 0

\* The promise Send has just returned: made with time.Second and
\* propagation, its goroutine about to run the callback ("running") or, the
\* forwarder having none, about to return ("returned").
SendInit ==
    /\ InitSharding /\ MergeAtRest /\ CacheAtRest
    /\ callback \in {"running", "returned"}
    /\ promise = NewPromise(Second, TRUE)
    /\ waiter = [w \in Waiters |-> Idle]
    /\ sets = NoHistory
    /\ now = 0

\* close(s.doneCh): the goroutines blocked in the select of Wait are woken
\* on the done case.
CloseDone ==
    /\ promise' = [promise EXCEPT !.doneCh = "closed"]
    /\ waiter' = [w \in Waiters |->
                    IF waiter[w].pc = "select"
                    THEN [waiter[w] EXCEPT !.pc = "woken", !.branch = "done"]
                    ELSE waiter[w]]
    /\ UNCHANGED sets

\* promise.setError(err) by the owner of a promise made by NewPromise.
SetError(err) ==
    /\ callback = "none"
    /\ promise' = setError(promise, err)
    /\ sets' = [sets EXCEPT
                  !.first = IF @ = NoError THEN err ELSE @,
                  !.firstRecoverable = IF @ = NoError /\ IsRecoverable(err) THEN err ELSE @]
    /\ waiter' = [w \in Waiters |->
                    IF waiter[w].pc = "read" /\ waiter[w].branch = "timeout"
                       /\ promise' # promise
                    THEN [waiter[w] EXCEPT !.raced = TRUE] ELSE waiter[w]]
    /\ UNCHANGED <<callback, now, shardingVars, mergeVars, cacheVars>>

\* promise.done() by the owner of a promise made by NewPromise, once.
done ==
    /\ callback = "none"
    /\ promise.doneCh = "open"
    /\ CloseDone
    /\ UNCHANGED <<callback, now, shardingVars, mergeVars, cacheVars>>

\* The callback of the goroutine Send started returns.
CallbackReturn ==
    /\ callback = "running"
    /\ callback' = "returned"
    /\ UNCHANGED <<promise, waiter, sets, now, shardingVars, mergeVars, cacheVars>>

\* When the goroutine Send started calls done: on its way out.
DoneAtOnce(cb) == cb \in {"running", "returned"}
DoneDeferred(cb) == cb = "returned"

\* The deferred promise.done() of the goroutine Send started.
DeferredDone ==
    /\ DoneDeferred(callback)
    /\ callback' = "done"
    /\ CloseDone
    /\ UNCHANGED <<now, shardingVars, mergeVars, cacheVars>>

\* The timer of Wait has gone off when the timeout has elapsed.
TimerReadyAtOnce(w) == TRUE
TimerReady(w) == now >= waiter[w].deadline

\* What the goroutines call: w1 as the tests that call Wait and Error, w2
\* as the readers of the outcome.
Ops(w) == IF w = "w1" THEN {"Wait", "Error"} ELSE {"Error", "ErrorAsHTTPGrpc"}

\* A goroutine calls Wait, Error or ErrorAsHTTPGrpc: Wait starts its timer
\* and selects; a closed doneCh is ready at once. It notes whether an
\* earlier Error or ErrorAsHTTPGrpc has returned by then.
Call(w, op) ==
    /\ waiter[w].pc = "idle"
    /\ now + promise.timeout <= MaxNow
    /\ waiter' = [waiter EXCEPT ![w] =
          [op |-> op,
           pc |-> IF promise.doneCh = "closed" THEN "woken" ELSE "select",
           deadline |-> now + promise.timeout,
           branch |-> IF promise.doneCh = "closed" THEN "done" ELSE "none",
           result |-> Pending,
           http |-> NoHTTPError,
           after |-> \E v \in Waiters : waiter[v].pc = "returned" /\ waiter[v].op # "Wait",
           raced |-> FALSE]]
    /\ UNCHANGED <<promise, sets, callback, now, shardingVars, mergeVars, cacheVars>>

\* case <-awaitTimeout.C
TimerFire(w) ==
    /\ waiter[w].pc = "select"
    /\ TimerReady(w)
    /\ waiter' = [waiter EXCEPT ![w].pc = "fired", ![w].branch = "timeout"]
    /\ UNCHANGED <<promise, sets, callback, now, shardingVars, mergeVars, cacheVars>>

\* What the timeout case of Wait stores.
KeepsStoredError(p) == IF p.err = NoError THEN promiseTimeout ELSE p.err
TimeoutError(p) == promiseTimeout

\* Where the goroutine is after Wait returned.
AfterWait(w) == IF waiter[w].op = "Wait" THEN "returned" ELSE "read"

\* s.err = promiseTimeout under errMtx, and Wait returns.
WriteTimeout(w) ==
    /\ waiter[w].pc = "fired"
    /\ promise' = [promise EXCEPT !.err = TimeoutError(promise)]
    /\ sets' = [sets EXCEPT !.timedOut = TRUE]
    /\ waiter' = [waiter EXCEPT ![w].pc = AfterWait(w)]
    /\ UNCHANGED <<callback, now, shardingVars, mergeVars, cacheVars>>

\* case <-s.doneCh: awaitTimeout.Stop(), and Wait returns.
WakeReturn(w) ==
    /\ waiter[w].pc = "woken"
    /\ waiter' = [waiter EXCEPT ![w].pc = AfterWait(w)]
    /\ UNCHANGED <<promise, sets, callback, now, shardingVars, mergeVars, cacheVars>>

\* return s.err under errMtx.
Read(w) ==
    /\ waiter[w].pc = "read"
    /\ waiter' = [waiter EXCEPT
          ![w].pc = "returned",
          ![w].result = promise.err,
          ![w].http = IF waiter[w].op = "ErrorAsHTTPGrpc"
                      THEN ErrorAsHTTPGrpc(promise.err) ELSE NoHTTPError]
    /\ UNCHANGED <<promise, sets, callback, now, shardingVars, mergeVars, cacheVars>>

Tick ==
    /\ now < MaxNow
    /\ now' = now + 1
    /\ UNCHANGED <<promise, waiter, sets, callback, shardingVars, mergeVars, cacheVars>>

WaiterStep(w) == TimerFire(w) \/ WriteTimeout(w) \/ WakeReturn(w) \/ Read(w)

PromiseNext ==
    \/ \E err \in AppErrors \cup {NoError} : SetError(err)
    \/ done
    \/ \E w \in Waiters : \E op \in Ops(w) : Call(w, op)
    \/ \E w \in Waiters : WaiterStep(w)
    \/ Tick

PromiseSpec == PromiseInit /\ [][PromiseNext]_vars

SendNext ==
    \/ CallbackReturn
    \/ DeferredDone
    \/ \E w \in Waiters : \E op \in Ops(w) : Call(w, op)
    \/ \E w \in Waiters : WaiterStep(w)
    \/ Tick

SendSpec == SendInit /\ [][SendNext]_vars

\* Time passes, and a goroutine that can take a step of Wait or Error takes
\* it; nothing makes the callback return.
FairSendSpec ==
    SendSpec /\ WF_vars(Tick) /\ WF_vars(DeferredDone)
             /\ \A w \in Waiters : WF_vars(WaiterStep(w))

(***************************************************************************)
(* The mock cache (pkg/cache/mock.go): a map from key to a value with its  *)
(* expiry, behind a mutex, and the instrumented wrapper that counts the    *)
(* Store and Fetch calls before it delegates.                              *)
(***************************************************************************)
MaxClock == 3
MaxCalls == 3
MaxInt32 == 2147483647

Keys == {"k1", "k2"}
Goroutines == {"g1", "g2"}
TTLs == {0, 2}

\* The data maps of Store and the key lists of Fetch.
DataMaps ==
    { [k \in {"k1"} |-> "a"], [k \in {"k1"} |-> "b"], [k \in {"k2"} |-> "a"],
      [k \in Keys |-> IF k = "k1" THEN "b" ELSE "a"] }
KeyLists == { <<"k1">>, <<"k2", "k1">>, <<>> }

\* NewMockCache, and the map after Flush.
NewMockCache == [k \in {} |-> [data |-> "", expiresAt |-> 0]]

\* The map after Store(data, ttl) at time t: every key of data gets the new
\* value and the new expiry.
StoreKeepsExpiry(c, data, ttl, t) ==
    [k \in DOMAIN c \cup DOMAIN data |->
        IF k \in DOMAIN data
        THEN [data |-> data[k],
              expiresAt |-> IF k \in DOMAIN c THEN c[k].expiresAt ELSE t + ttl]
        ELSE c[k]]
Store(c, data, ttl, t) ==
    [k \in DOMAIN c \cup DOMAIN data |->
        IF k \in DOMAIN data
        THEN [data |-> data[k], expiresAt |-> t + ttl]
        ELSE c[k]]

\* time.Time.Before.
NotAfter(t, u) == t <= u
Before(t, u) == t < u

\* The result of Fetch(keys) at time t.
Fetch(c, keys, t) ==
    LET hit == {k \in {keys[n] : n \in DOMAIN keys} :
                   k \in DOMAIN c /\ Before(t, c[k].expiresAt)}
    IN [k \in hit |-> c[k].data]

\* The map after Delete(key).
DeleteNothing(c, key) == c
Delete(c, key) == [k \in DOMAIN c \ {key} |-> c[k]]

\* The map after Flush.
Flush(c) == NewMockCache

\* atomic.Int32.Inc.
IncSaturating(n) == IF n = MaxInt32 THEN n ELSE n + 1
Inc(n) == IF n = MaxInt32 THEN -MaxInt32 - 1 ELSE n + 1

CountStoreCalls == counts.store
CountFetchCalls == counts.fetch

\* A goroutine that is in no call.
NoCall ==
    [pc |-> "idle", op |-> "none", data |-> NewMockCache, ttl |-> 0, keys |-> <<>>,
     found |-> NewMockCache]

\* What the calls so far say of each key: the value, time and ttl of the
\* most recent Store of the key if no Delete of it and no Flush came since.
NotStored == [stored |-> FALSE, data |-> "", at |-> 0, ttl |-> 0]
NoCalls ==
    [before |-> 0, stores |-> 0, fetches |-> 0, begun |-> 0, last |-> [k \in Keys |-> NotStored]]

RecordStore(data, ttl) ==
    [calls EXCEPT
       !.last = [k \in Keys |->
                    IF k \in DOMAIN data
                    THEN [stored |-> TRUE, data |-> data[k], at |-> clock, ttl |-> ttl]
                    ELSE @[k]]]

\* A cache made by NewMockCache.
MockInit ==
    /\ InitSharding /\ MergeAtRest /\ ForwardingAtRest
    /\ cache = NewMockCache
    /\ counts = [store |-> 0, fetch |-> 0]
    /\ caller = [g \in Goroutines |-> NoCall]
    /\ calls = NoCalls
    /\ clock = 0

\* MockCache.Store, under the mutex.
MockStore(g, data, ttl) ==
    /\ cache' = Store(cache, data, ttl, clock)
    /\ caller' = [caller EXCEPT ![g] = [NoCall EXCEPT !.op = "Store"]]
    /\ calls' = RecordStore(data, ttl)
    /\ UNCHANGED <<counts, clock, shardingVars, mergeVars, forwardingVars>>

\* MockCache.Fetch, under the mutex.
MockFetch(g, keys) ==
    /\ caller' = [caller EXCEPT ![g] =
          [NoCall EXCEPT !.op = "Fetch", !.keys = keys, !.found = Fetch(cache, keys, clock)]]
    /\ UNCHANGED <<cache, counts, calls, clock, shardingVars, mergeVars, forwardingVars>>

\* MockCache.Delete, under the mutex.
MockDelete(g, key) ==
    /\ cache' = Delete(cache, key)
    /\ caller' = [caller EXCEPT ![g] = [NoCall EXCEPT !.op = "Delete", !.keys = <<key>>]]
    /\ calls' = [calls EXCEPT !.last[key] = NotStored]
    /\ UNCHANGED <<counts, clock, shardingVars, mergeVars, forwardingVars>>

\* MockCache.Flush, under the mutex.
MockFlush(g) ==
    /\ cache' = Flush(cache)
    /\ caller' = [caller EXCEPT ![g] = [NoCall EXCEPT !.op = "Flush"]]
    /\ calls' = [calls EXCEPT !.last = [k \in Keys |-> NotStored]]
    /\ UNCHANGED <<counts, clock, shardingVars, mergeVars, forwardingVars>>

\* time.Now moves on.
ClockTick ==
    /\ clock < MaxClock
    /\ clock' = clock + 1
    /\ UNCHANGED <<cache, counts, caller, calls, shardingVars, mergeVars, forwardingVars>>

MockNext ==
    \/ \E g \in Goroutines : \E data \in DataMaps : \E ttl \in TTLs : MockStore(g, data, ttl)
    \/ \E g \in Goroutines : \E keys \in KeyLists : MockFetch(g, keys)
    \/ \E g \in Goroutines : \E key \in Keys : MockDelete(g, key)
    \/ \E g \in Goroutines : MockFlush(g)
    \/ ClockTick

MockSpec == MockInit /\ [][MockNext]_vars

\* A cache made by NewInstrumentedMockCache, new or after the calls that
\* bring both counters near the end of their range (calls that stored nothing
\* that is still there); calls.before is the number of calls of each kind
\* made before, calls.stores and calls.fetches count the calls from here on.
InstrumentedInit ==
    /\ InitSharding /\ MergeAtRest /\ ForwardingAtRest
    /\ cache = NewMockCache
    /\ \E n \in {0, MaxInt32 - 1} :
          /\ counts = [store |-> n, fetch |-> n]
          /\ calls = [NoCalls EXCEPT !.before = n]
    /\ caller = [g \in Goroutines |-> NoCall]
    /\ clock = 0

\* InstrumentedMockCache.Store up to its delegation: m.storeCount.Inc().
StoreInc(g, data, ttl) ==
    /\ caller[g].pc = "idle"
    /\ calls.begun < MaxCalls
    /\ counts' = [counts EXCEPT !.store = Inc(@)]
    /\ caller' = [caller EXCEPT ![g] =
          [NoCall EXCEPT !.pc = "counted", !.op = "Store", !.data = data, !.ttl = ttl]]
    /\ calls' = [calls EXCEPT !.begun = @ + 1]
    /\ UNCHANGED <<cache, clock, shardingVars, mergeVars, forwardingVars>>

\* InstrumentedMockCache.Store: m.cache.Store(ctx, data, ttl).
StoreDelegate(g) ==
    /\ caller[g].pc = "counted" /\ caller[g].op = "Store"
    /\ cache' = Store(cache, caller[g].data, caller[g].ttl, clock)
    /\ caller' = [caller EXCEPT ![g] = [NoCall EXCEPT !.op = "Store"]]
    /\ calls' = [RecordStore(caller[g].data, caller[g].ttl) EXCEPT !.stores = @ + 1]
    /\ UNCHANGED <<counts, clock, shardingVars, mergeVars, forwardingVars>>

\* InstrumentedMockCache.Fetch up to its delegation: m.fetchCount.Inc().
FetchInc(g, keys) ==
    /\ caller[g].pc = "idle"
    /\ calls.begun < MaxCalls
    /\ counts' = [counts EXCEPT !.fetch = Inc(@)]
    /\ caller' = [caller EXCEPT ![g] = [NoCall EXCEPT !.pc = "counted", !.op = "Fetch", !.keys = keys]]
    /\ calls' = [calls EXCEPT !.begun = @ + 1]
    /\ UNCHANGED <<cache, clock, shardingVars, mergeVars, forwardingVars>>

\* InstrumentedMockCache.Fetch: return m.cache.Fetch(ctx, keys).
FetchDelegate(g) ==
    /\ caller[g].pc = "counted" /\ caller[g].op = "Fetch"
    /\ caller' = [caller EXCEPT ![g].pc = "idle",
                                ![g].found = Fetch(cache, caller[g].keys, clock)]
    /\ calls' = [calls EXCEPT !.fetches = @ + 1]
    /\ UNCHANGED <<cache, counts, clock, shardingVars, mergeVars, forwardingVars>>

InstrumentedNext ==
    \/ \E g \in Goroutines : \E data \in DataMaps : \E ttl \in TTLs : StoreInc(g, data, ttl)
    \/ \E g \in Goroutines : StoreDelegate(g)
    \/ \E g \in Goroutines : \E keys \in KeyLists : FetchInc(g, keys)
    \/ \E g \in Goroutines : FetchDelegate(g)
    \/ ClockTick

InstrumentedSpec == InstrumentedInit /\ [][InstrumentedNext]_vars

(***************************************************************************)
(* Claims about the forwarding promise.                                    *)
(***************************************************************************)
\* The error the first-recoverable-wins rule selects among those set.
Selected == IF sets.firstRecoverable # NoError THEN sets.firstRecoverable ELSE sets.first

Returned(w) == waiter[w].pc = "returned"
ReturnedError(w) == Returned(w) /\ waiter[w].op # "Wait"
TimeoutWritten(w) == waiter[w].pc = "fired" /\ waiter'[w].pc # "fired"

\* C21: with propagation and no timeout, the stored error is the first
\* recoverable error set if there is one and else the first error set, and
\* no setError replaces a stored recoverable error.
C21_FirstRecoverableWins ==
    /\ [](promise.propagateErrors /\ ~sets.timedOut => promise.err = Selected)
    /\ [][IsRecoverable(promise.err) /\ promise'.err # promise.err =>
            \E w \in Waiters : TimeoutWritten(w)]_vars

C21_Witness ==
    /\ promise.propagateErrors /\ ~sets.timedOut
    /\ sets.first = testErr
    /\ sets.firstRecoverable # NoError
    /\ sets.firstRecoverable.msg # sets.first.msg
    /\ promise.err = sets.firstRecoverable

\* C22: when done() is never called, Error() returns promiseTimeout.
C22_TimeoutReported ==
    \A w \in Waiters :
        ReturnedError(w) /\ promise.doneCh = "open" => waiter[w].result = promiseTimeout

\* C23: Wait returns only once done() has been called or the timeout has
\* elapsed since it began; a done() that comes while Wait is selecting wins,
\* no timeout is recorded for that call, and Error() is nil when no error
\* was stored.
C23_WaitReturnsOnDoneOrTimeout ==
    /\ [](\A w \in Waiters :
            /\ waiter[w].pc \in {"read", "returned"} =>
                  \/ waiter[w].branch = "done" /\ promise.doneCh = "closed"
                  \/ waiter[w].branch = "timeout" /\ now >= waiter[w].deadline
            /\ waiter[w].branch = "done" => waiter[w].pc # "fired"
            /\ ReturnedError(w) /\ waiter[w].branch = "done" /\ ~sets.timedOut
                  /\ (sets.first = NoError \/ ~promise.propagateErrors)
                  => waiter[w].result = NoError)
    /\ [][\A w \in Waiters :
            /\ waiter[w].pc = "select" /\ promise'.doneCh # promise.doneCh =>
                  waiter'[w].branch = "done"
            /\ waiter[w].branch = "done" => waiter'[w].branch = "done" /\ ~TimeoutWritten(w)]_vars

C23_Witness ==
    /\ waiter["w1"].op = "Wait" /\ Returned("w1") /\ waiter["w1"].branch = "done"
    /\ now > 0 /\ now < waiter["w1"].deadline
    /\ ReturnedError("w2") /\ waiter["w2"].result = NoError

\* C24: Error() after setError(e) and done() returns the error the promise
\* stores for e with propagation and nil without it, where setError changes
\* nothing.
C24_PropagationSwitch ==
    /\ [](\A w \in Waiters :
            ReturnedError(w) /\ waiter[w].branch = "done" /\ ~sets.timedOut
               /\ ~promise.propagateErrors => waiter[w].result = NoError)
    /\ [][\A w \in Waiters :
            waiter[w].pc = "read" /\ waiter'[w].pc = "returned"
               /\ waiter[w].branch = "done" /\ ~sets.timedOut =>
               waiter'[w].result = IF promise.propagateErrors THEN Selected ELSE NoError]_vars
    /\ [][~promise.propagateErrors /\ promise'.err # promise.err =>
            \E w \in Waiters : TimeoutWritten(w)]_vars

C24_Witness ==
    /\ ~promise.propagateErrors
    /\ sets.first = testErr
    /\ promise.doneCh = "closed"
    /\ ReturnedError("w2") /\ waiter["w2"].branch = "done" /\ waiter["w2"].result = NoError
    /\ waiter["w1"].pc = "idle"

\* C25: ErrorAsHTTPGrpc returns nil for a nil error, a 500 carrying the
\* message for a recoverable error and a 400 carrying the message for any
\* other error.
C25_HTTPGrpcCarriesMessage ==
    \A w \in Waiters :
        Returned(w) /\ waiter[w].op = "ErrorAsHTTPGrpc" =>
            LET err == waiter[w].result
            IN waiter[w].http =
                  IF err = NoError THEN NoHTTPError
                  ELSE [code |-> IF IsRecoverable(err) THEN 500 ELSE 400, body |-> err.msg]

\* C26: the promise is single-assignment: an Error() that begins after
\* another Error() has returned reports the same outcome.
C26_SingleAssignment ==
    \A w, v \in Waiters :
        ReturnedError(w) /\ ReturnedError(v) /\ waiter[w].after /\ ~waiter[v].after =>
            waiter[w].result = waiter[v].result

\* C26 (amended): the stored error changes only from nil to an error set
\* with propagation, from a non-recoverable to a recoverable error set with
\* propagation, or to promiseTimeout by a Wait that times out; it never goes
\* back to nil, and a later Error() differs from an earlier one accordingly.
C26_OutcomeChangesOnlyByRule ==
    /\ [][promise'.err # promise.err =>
            \/ \E w \in Waiters : TimeoutWritten(w) /\ promise'.err = promiseTimeout
            \/ /\ promise.propagateErrors
               /\ promise'.err \in AppErrors
               /\ promise.err = NoError \/ (~IsRecoverable(promise.err) /\ IsRecoverable(promise'.err))]_vars
    /\ [](\A w, v \in Waiters :
            ReturnedError(w) /\ ReturnedError(v) /\ waiter[w].after /\ ~waiter[v].after
               /\ waiter[w].result # waiter[v].result =>
               /\ waiter[w].result # NoError
               /\ \/ waiter[v].result = NoError
                  \/ waiter[w].result = promiseTimeout
                  \/ IsRecoverable(waiter[w].result)
               /\ IsRecoverable(waiter[v].result) /\ waiter[w].result # promiseTimeout
                     => sets.timedOut)

C26_Witness ==
    /\ ReturnedError("w1") /\ ReturnedError("w2")
    /\ waiter["w2"].after /\ ~waiter["w1"].after
    /\ promise.doneCh = "closed" /\ ~sets.timedOut
    /\ waiter["w1"].result = NoError
    /\ waiter["w2"].result = testErr

\* C29: a Wait that times out stores promiseTimeout whatever error was
\* stored, a recoverable one included, and the Error() that timed out
\* returns promiseTimeout whatever setError calls came before.
C29_TimeoutOverwrites ==
    /\ [][\A w \in Waiters : TimeoutWritten(w) => promise'.err = promiseTimeout]_vars
    /\ [](\A w \in Waiters :
            ReturnedError(w) /\ waiter[w].branch = "timeout" /\ ~waiter[w].raced =>
               waiter[w].result = promiseTimeout)

C29_Witness ==
    /\ promise.propagateErrors
    /\ sets.firstRecoverable # NoError
    /\ ReturnedError("w1") /\ waiter["w1"].branch = "timeout" /\ ~waiter["w1"].raced
    /\ waiter["w1"].result = promiseTimeout
    /\ waiter["w2"].pc = "idle"
    /\ promise.err = promiseTimeout

\* C30: the promise Send returns is usable while the callback still runs;
\* done() is called once, when the callback has returned; an Error() woken
\* by it returns nil, one whose callback never returns comes back with
\* promiseTimeout, and every Error() begun comes back.
C30_SendCompletesPromise ==
    /\ [](/\ promise.doneCh = "closed" <=> callback = "done"
          /\ \A w \in Waiters :
               /\ ReturnedError(w) /\ waiter[w].branch = "done" /\ ~sets.timedOut
                     => waiter[w].result = NoError
               /\ ReturnedError(w) /\ callback = "running"
                     => waiter[w].result = promiseTimeout /\ now >= waiter[w].deadline)
    /\ [][/\ promise'.doneCh # promise.doneCh => callback = "returned" /\ callback' = "done"
          /\ callback = "done" => callback' = "done" /\ promise'.doneCh = "closed"]_vars
    /\ \A w \in Waiters : waiter[w].pc # "idle" ~> Returned(w)

C30_Witness ==
    /\ callback = "done"
    /\ ReturnedError("w1") /\ waiter["w1"].branch = "done" /\ waiter["w1"].result = NoError
    /\ now < waiter["w1"].deadline
    /\ now > 0

(***************************************************************************)
(* Claims about the mock cache.                                            *)
(***************************************************************************)
\* What a Fetch of keys must return by the calls so far: the requested keys
\* whose most recent Store has not been removed and expires in the future.
Expected(keys) ==
    LET live == {k \in {keys[n] : n \in DOMAIN keys} :
                    calls.last[k].stored /\ calls.last[k].at + calls.last[k].ttl > clock}
    IN [k \in live |-> calls.last[k].data]

Fetched(g) == caller[g].op = "Fetch" /\ caller[g].pc = "idle"

\* C27: Fetch(keys) returns exactly the requested keys whose most recent
\* Store has not been removed by a Delete or Flush since and whose expiry,
\* the time of that Store plus its ttl, is in the future, each with the value
\* of that Store.
C27_FetchExact ==
    [][\A g \in Goroutines :
          caller'[g] # caller[g] /\ caller'[g].op = "Fetch" =>
             /\ caller'[g].found = Expected(caller'[g].keys)
             /\ cache' = cache]_vars

C27_Witness ==
    /\ Fetched("g1") /\ caller["g1"].keys = <<"k2", "k1">>
    /\ DOMAIN caller["g1"].found = {"k1"}
    /\ caller["g1"].found["k1"] = "b"
    /\ DOMAIN cache = Keys
    /\ cache["k1"].expiresAt = clock + 1
    /\ calls.last["k1"].at > calls.last["k2"].at
    /\ caller["g2"].op = "Delete"

InFlight(op) == Cardinality({g \in Goroutines : caller[g].pc = "counted" /\ caller[g].op = op})
Quiescent == \A g \in Goroutines : caller[g].pc = "idle"

\* The Store and Fetch calls made since the cache was as in the initial state.
StoresMade == calls.stores + InFlight("Store")
FetchesMade == calls.fetches + InFlight("Fetch")

\* count = calls.before + made, in the integers.
IsSum(count, made) == count >= calls.before /\ count - calls.before = made

\* calls.before + made as a 32-bit signed integer.
Int32Sum(made) ==
    IF calls.before > MaxInt32 - made
    THEN (((calls.before - MaxInt32 - 1) + made) - MaxInt32) - 1
    ELSE calls.before + made

====
